---------------------------- MODULE Spec2Model ----------------------------
(***************************************************************************)
(* A model of adt::binary_tree (binary_tree.hpp): the node store           *)
(* (_construct_node / _destroy_node over heap-allocated _Node objects),    *)
(* the tree objects (root, sz) with their defaulted copy/move operations,  *)
(* the iterator positions and the node handle (node_type).                 *)
(*                                                                         *)
(* The heap is a finite set of addresses.  `alloc` is the set of addresses *)
(* that are currently allocated; a pointer whose target is not in `alloc`  *)
(* is dangling.  The allocator may hand out any free address, a previously *)
(* freed one included.  Operations are only invoked with arguments whose   *)
(* dereferences hit allocated nodes (the caller guarantees validity).      *)
(***************************************************************************)
EXTENDS Integers, FiniteSets, Sequences, TLC

\* ------------------------------------------------------------------ bounds
\* Heap cells available to each specification, the values stored, and the
\* largest height a constructed node may get.
StoreCap == 3
IterCap == 4
TreeCap == 3
HandleCap == 3
LinkCap == 3
MaxNodes == 4
MaxVal == 5
MaxHeight == 2

NULL == 0
Addr == 1..MaxNodes
Ptr == Addr \cup {NULL}
Values == 1..MaxVal
\* The values the node-store specification stores: one below, one at and
\* one above a parent's value.
StoreValues == {1, 2, 3}
\* The values the node-handle specification stores.
HandleValues == {1, 2}
Trees == {"a", "b"}

Handles == {"h1", "h2"}

VARIABLES
    cap,     \* number of heap cells the allocator can hand out
    alloc,   \* the allocated heap cells
    node,    \* heap cell -> _Node
    root,    \* tree -> binary_tree::root
    sz,      \* tree -> binary_tree::sz
    tlive,   \* tree -> the tree object has been constructed and not destroyed
    hnode,   \* node handle -> node_type::node
    hlive,   \* node handle -> the handle has been constructed and not destroyed
    it,      \* const_iterator::node of the one iterator object
    last     \* the last operation: its name, node argument and result

vars == <<cap, alloc, node, root, sz, tlive, hnode, hlive, it, last>>
heapVars == <<alloc, node>>
treeVars == <<root, sz, tlive>>
handleVars == <<hnode, hlive>>

\* ------------------------------------------------------------------- _Node
\* Content of a heap cell that holds no node.
Blank == [value |-> 0, parent |-> NULL, left |-> NULL, right |-> NULL, height |-> 0]

Max(x, y) == IF x >= y THEN x ELSE y

\* _Node(value_type value): an unlinked leaf.
Node1(v) == [value |-> v, parent |-> NULL, left |-> NULL, right |-> NULL, height |-> 0]

\* NodeHeight that keeps the member initialiser's h for a node without
\* children.
NodeHeightKeepsArg(nd, l, r, h) ==
    IF l # NULL
    THEN IF r # NULL
         THEN 1 + Max(nd[l].height, nd[r].height)
         ELSE 1 + nd[l].height
    ELSE IF r # NULL
         THEN 1 + nd[r].height
         ELSE h

\* The height the five-argument constructor stores: the member initialiser
\* takes the argument h, and each of the four branches then overwrites it.
NodeHeight(nd, l, r, h) ==
    IF l # NULL
    THEN IF r # NULL
         THEN 1 + Max(nd[l].height, nd[r].height)
         ELSE 1 + nd[l].height
    ELSE IF r # NULL
         THEN 1 + nd[r].height
         ELSE 0

\* Node5 with the two sides of the comparison exchanged.
Node5Swapped(nd, a, v, p, l, r, h) ==
    LET nd1 == [nd EXCEPT ![a] = [value |-> v, parent |-> p, left |-> l,
                                  right |-> r, height |-> NodeHeight(nd, l, r, h)]]
    IN  IF p = NULL
        THEN nd1
        ELSE IF v < nd1[p].value
             THEN [nd1 EXCEPT ![p].right = a]
             ELSE IF v > nd1[p].value
                  THEN [nd1 EXCEPT ![p].left = a]
                  ELSE nd1

\* Node5 that forgets to store the parent in the new node.
Node5NoParent(nd, a, v, p, l, r, h) ==
    LET nd1 == [nd EXCEPT ![a] = [value |-> v, parent |-> NULL, left |-> l,
                                  right |-> r, height |-> NodeHeight(nd, l, r, h)]]
    IN  IF p = NULL
        THEN nd1
        ELSE IF v < nd1[p].value
             THEN [nd1 EXCEPT ![p].left = a]
             ELSE IF v > nd1[p].value
                  THEN [nd1 EXCEPT ![p].right = a]
                  ELSE nd1

\* Node5 that also raises the height of the parent it links to.
Node5RaisingParent(nd, a, v, p, l, r, h) ==
    LET nd1 == [nd EXCEPT ![a] = [value |-> v, parent |-> p, left |-> l,
                                  right |-> r, height |-> NodeHeight(nd, l, r, h)]]
    IN  IF p = NULL
        THEN nd1
        ELSE IF v < nd1[p].value
             THEN [nd1 EXCEPT ![p].left = a,
                              ![p].height = Max(@, 1 + nd1[a].height)]
             ELSE IF v > nd1[p].value
                  THEN [nd1 EXCEPT ![p].right = a,
                                   ![p].height = Max(@, 1 + nd1[a].height)]
                  ELSE nd1

\* Node5 that links the new node as the parent's left child whenever the
\* values differ.
Node5AlwaysLeft(nd, a, v, p, l, r, h) ==
    LET nd1 == [nd EXCEPT ![a] = [value |-> v, parent |-> p, left |-> l,
                                  right |-> r, height |-> NodeHeight(nd, l, r, h)]]
    IN  IF p = NULL
        THEN nd1
        ELSE IF v < nd1[p].value
             THEN [nd1 EXCEPT ![p].left = a]
             ELSE IF v > nd1[p].value
                  THEN [nd1 EXCEPT ![p].left = a]
                  ELSE nd1

\* _Node(value, parent, left, right, height) constructed in heap cell a:
\* the heap after the constructor body has run.
Node5(nd, a, v, p, l, r, h) ==
    LET nd1 == [nd EXCEPT ![a] = [value |-> v, parent |-> p, left |-> l,
                                  right |-> r, height |-> NodeHeight(nd, l, r, h)]]
    IN  IF p = NULL
        THEN nd1
        ELSE IF v < nd1[p].value
             THEN [nd1 EXCEPT ![p].left = a]
             ELSE IF v > nd1[p].value
                  THEN [nd1 EXCEPT ![p].right = a]
                  ELSE nd1

\* ------------------------------------------------------------ reachability
Children(nd, S) ==
    {c \in alloc : \E n \in S : nd[n].left = c \/ nd[n].right = c}

RECURSIVE Closure(_, _)
Closure(nd, S) ==
    LET T == S \cup Children(nd, S)
    IN  IF T = S THEN S ELSE Closure(nd, T)

\* The nodes reachable from pointer r through left/right links.
Reach(r) == IF r \in alloc THEN Closure(node, {r}) ELSE {}

\* ------------------------------------------------------------------- state
\* The record of an operation: its name, the handles it was applied to (h the
\* object, o the other one), a node argument, the result, and whether it
\* ended by throwing std::runtime_error.
OpH(op, h, o, n, ret, err) ==
    [op |-> op, h |-> h, o |-> o, n |-> n, ret |-> ret, err |-> err]

Op(op, n, ret) == OpH(op, "-", "-", n, ret, FALSE)

TypeOK ==
    /\ cap \in 0..MaxNodes
    /\ alloc \subseteq 1..cap
    /\ node \in [Addr -> [value : 0..MaxVal, parent : Ptr, left : Ptr,
                          right : Ptr, height : 0..MaxHeight]]
    /\ root \in [Trees -> Ptr]
    /\ sz \in [Trees -> Nat]
    /\ tlive \in [Trees -> BOOLEAN]
    /\ hnode \in [Handles -> Ptr]
    /\ hlive \in [Handles -> BOOLEAN]
    /\ it \in Ptr
    /\ last.op \in STRING /\ last.n \in Ptr /\ last.err \in BOOLEAN

\* The state after `binary_tree()` has constructed tree "a" (root(nullptr),
\* sz(0)); nothing else exists yet.  c is the heap capacity of the run.
InitWith(c) ==
    /\ cap = c
    /\ alloc = {}
    /\ node = [a \in Addr |-> Blank]
    /\ root = [t \in Trees |-> NULL]
    /\ sz = [t \in Trees |-> 0]
    /\ tlive = [t \in Trees |-> t = "a"]
    /\ hnode = [h \in Handles |-> NULL]
    /\ hlive = [h \in Handles |-> FALSE]
    /\ it = NULL
    /\ last = Op("init", NULL, NULL)

Init == InitWith(StoreCap)

\* The cells the allocator may hand out next.
FreeCells == (1..cap) \ alloc

\* -------------------------------------------------------------- node store
\* binary_tree::_construct_node(const_reference value)
ConstructNode(v) ==
    /\ \E a \in FreeCells :
        /\ alloc' = alloc \cup {a}
        /\ node' = [node EXCEPT ![a] = Node1(v)]
        /\ last' = Op("construct_node", NULL, a)
    /\ UNCHANGED <<cap, treeVars, handleVars, it>>

\* ConstructNodeLinked changed to count the node it links.
ConstructNodeLinkedCounting(v, p, l, r, h) ==
    /\ {p, l, r} \subseteq alloc \cup {NULL}
    /\ NodeHeight(node, l, r, h) <= MaxHeight
    /\ \E a \in FreeCells :
        /\ alloc' = alloc \cup {a}
        /\ node' = Node5(node, a, v, p, l, r, h)
        /\ last' = Op("construct_node_linked", p, a)
    /\ sz' = [t \in Trees |-> IF tlive[t] THEN sz[t] + 1 ELSE sz[t]]
    /\ UNCHANGED <<cap, root, tlive, handleVars, it>>

\* binary_tree::_construct_node(value, parent, left, right, height)
ConstructNodeLinked(v, p, l, r, h) ==
    /\ {p, l, r} \subseteq alloc \cup {NULL}
    /\ NodeHeight(node, l, r, h) <= MaxHeight
    /\ \E a \in FreeCells :
        /\ alloc' = alloc \cup {a}
        /\ node' = Node5(node, a, v, p, l, r, h)
        /\ last' = Op("construct_node_linked", p, a)
    /\ UNCHANGED <<cap, treeVars, handleVars, it>>

\* The heap after node_allocator_traits::destroy + deallocate of cell a.
FreeCell(nd, a) == [nd EXCEPT ![a] = Blank]

\* DestroyHeap with a slip: both links of the parent are cleared.
DestroyHeapBothLinks(nd, n) ==
    IF nd[n].parent = NULL
    THEN FreeCell(nd, n)
    ELSE FreeCell([nd EXCEPT ![nd[n].parent].left = NULL,
                             ![nd[n].parent].right = NULL], n)

\* The heap after binary_tree::_destroy_node(n), n allocated.
DestroyHeap(nd, n) ==
    IF nd[n].parent = NULL
    THEN FreeCell(nd, n)
    ELSE LET p == nd[n].parent
         IN  IF nd[p].left = n
             THEN FreeCell([nd EXCEPT ![p].left = NULL], n)
             ELSE IF nd[p].right = n
                  THEN FreeCell([nd EXCEPT ![p].right = NULL], n)
                  ELSE FreeCell(nd, n)

\* The value binary_tree::_destroy_node(n) returns.
DestroyRet(nd, n) == IF n = NULL THEN NULL ELSE nd[n].parent

\* DestroyNode changed to reset the root of a tree whose root it destroys.
DestroyNodeClearingRoot(n) ==
    /\ \/ /\ n = NULL
          /\ UNCHANGED heapVars
       \/ /\ n \in alloc
          /\ node[n].parent \in alloc \cup {NULL}
          /\ alloc' = alloc \ {n}
          /\ node' = DestroyHeap(node, n)
    /\ last' = Op("destroy_node", n, DestroyRet(node, n))
    /\ root' = [t \in Trees |-> IF n # NULL /\ root[t] = n THEN NULL ELSE root[t]]
    /\ UNCHANGED <<cap, sz, tlive, handleVars, it>>

\* binary_tree::_destroy_node(_Node* node)
DestroyNode(n) ==
    /\ \/ /\ n = NULL
          /\ UNCHANGED heapVars
       \/ /\ n \in alloc
          /\ node[n].parent \in alloc \cup {NULL}
          /\ alloc' = alloc \ {n}
          /\ node' = DestroyHeap(node, n)
    /\ last' = Op("destroy_node", n, DestroyRet(node, n))
    /\ UNCHANGED <<cap, treeVars, handleVars, it>>

\* The node store driven with every parent argument and with every pair of
\* child arguments.
InitLink == InitWith(LinkCap)

NextLink ==
    \/ \E v \in HandleValues : ConstructNode(v)
    \/ \E v \in HandleValues, p \in Addr, h \in {0, MaxHeight} :
          ConstructNodeLinked(v, p, NULL, NULL, h)
    \/ \E v \in HandleValues, l, r \in Ptr, h \in {0, MaxHeight} :
          /\ l # NULL \/ r # NULL
          /\ ConstructNodeLinked(v, NULL, l, r, h)

SpecLink == InitLink /\ [][NextLink]_vars

\* ----------------------------------------------------- the subclass's part
\* A concrete tree's first insertion: the freshly constructed, unlinked node
\* n becomes the root and is counted.
AdoptRoot(t, n) ==
    /\ tlive[t] /\ root[t] = NULL
    /\ n \in alloc /\ node[n] = Node1(node[n].value)
    /\ \A u \in Trees : root[u] # n
    /\ root' = [root EXCEPT ![t] = n]
    /\ sz' = [sz EXCEPT ![t] = 1]
    /\ last' = Op("adopt_root", n, NULL)
    /\ UNCHANGED <<cap, heapVars, tlive, handleVars, it>>

\* The caller's step after _destroy_node has destroyed the root: it clears
\* `root`, and the tree is empty again.
ClearRoot(t) ==
    /\ tlive[t] /\ root[t] # NULL /\ root[t] \notin alloc
    /\ root' = [root EXCEPT ![t] = NULL]
    /\ sz' = [sz EXCEPT ![t] = 0]
    /\ last' = Op("clear_root", root[t], NULL)
    /\ UNCHANGED <<cap, heapVars, tlive, handleVars, it>>

Next ==
    \/ \E v \in StoreValues : ConstructNode(v)
    \/ \E v \in StoreValues, p \in Addr, h \in {0, MaxHeight} :
          ConstructNodeLinked(v, p, NULL, NULL, h)
    \/ \E n \in Ptr : DestroyNode(n)
    \/ \E t \in Trees, n \in Addr : AdoptRoot(t, n)
    \/ \E t \in Trees : ClearRoot(t)

Spec == Init /\ [][Next]_vars

\* ------------------------------------------------------- in-order traversal
RECURSIVE Leftmost(_, _)
Leftmost(nd, n) == IF nd[n].left = NULL THEN n ELSE Leftmost(nd, nd[n].left)

RECURSIVE Rightmost(_, _)
Rightmost(nd, n) == IF nd[n].right = NULL THEN n ELSE Rightmost(nd, nd[n].right)

\* Ascend via parent until arriving as a left child; that ancestor, or null.
RECURSIVE AscendFromRight(_, _)
AscendFromRight(nd, n) ==
    LET p == nd[n].parent
    IN  IF p = NULL THEN NULL
        ELSE IF nd[p].left = n THEN p
        ELSE AscendFromRight(nd, p)

\* Ascend via parent until arriving as a right child; that ancestor, or null.
RECURSIVE AscendFromLeft(_, _)
AscendFromLeft(nd, n) ==
    LET p == nd[n].parent
    IN  IF p = NULL THEN NULL
        ELSE IF nd[p].right = n THEN p
        ELSE AscendFromLeft(nd, p)

\* The position operator++ moves to from node n.
Successor(nd, n) ==
    IF nd[n].right # NULL THEN Leftmost(nd, nd[n].right) ELSE AscendFromRight(nd, n)

\* The position operator-- moves to from node n.
Predecessor(nd, n) ==
    IF nd[n].left # NULL THEN Rightmost(nd, nd[n].left) ELSE AscendFromLeft(nd, n)

\* The values met by chaining Successor from node n, at most k of them.
RECURSIVE Chain(_, _, _)
Chain(nd, n, k) ==
    IF n = NULL \/ k = 0 THEN <<>> ELSE <<nd[n].value>> \o Chain(nd, Successor(nd, n), k - 1)

\* The nodes met by chaining Successor from node n, at most k of them.
RECURSIVE NodeChain(_, _, _)
NodeChain(nd, n, k) ==
    IF n = NULL \/ k = 0 THEN <<>> ELSE <<n>> \o NodeChain(nd, Successor(nd, n), k - 1)

\* The in-order traversal of the tree at r: the chain from its leftmost node.
Inorder(r) == IF r = NULL THEN <<>> ELSE Chain(node, Leftmost(node, r), cap + 1)

\* The node at which a descent from n by comparison with v stops: the needed
\* child slot is free there, or its value is v.
RECURSIVE Descend(_, _, _)
Descend(nd, n, v) ==
    IF v < nd[n].value
    THEN IF nd[n].left = NULL THEN n ELSE Descend(nd, nd[n].left, v)
    ELSE IF v > nd[n].value
         THEN IF nd[n].right = NULL THEN n ELSE Descend(nd, nd[n].right, v)
         ELSE n

\* Every link met from pointer r on leads to an allocated node.
LinksValid(r) ==
    /\ r \in alloc \cup {NULL}
    /\ \A n \in Reach(r) : {node[n].left, node[n].right} \subseteq alloc \cup {NULL}

\* A concrete tree's insertion of a value not yet stored: the first node
\* becomes the root, a later one is linked where the descent from root stops,
\* with the linking constructor; the node is counted.
Insert(t, v) ==
    /\ tlive[t]
    /\ LinksValid(root[t])
    /\ \E a \in FreeCells :
        /\ alloc' = alloc \cup {a}
        /\ IF root[t] = NULL
           THEN /\ node' = [node EXCEPT ![a] = Node1(v)]
                /\ root' = [root EXCEPT ![t] = a]
                /\ last' = Op("insert", NULL, a)
           ELSE LET p == Descend(node, root[t], v) IN
                /\ node[p].value # v
                /\ node' = Node5(node, a, v, p, NULL, NULL, 0)
                /\ root' = root
                /\ last' = Op("insert", p, a)
    /\ sz' = [sz EXCEPT ![t] = @ + 1]
    /\ UNCHANGED <<cap, tlive, handleVars, it>>

\* ---------------------------------------------------------------- iterators
\* const_iterator(const binary_tree& tree): the position is the root.
IterAtRoot(t) ==
    /\ tlive[t]
    /\ it' = root[t]
    /\ last' = Op("iter_root", NULL, root[t])
    /\ UNCHANGED <<cap, heapVars, treeVars, handleVars>>

\* const_iterator(const _Node* const& node): the position is node n.
IterAt(n) ==
    /\ n \in alloc \cup {NULL}
    /\ it' = n
    /\ last' = Op("iter_at", NULL, n)
    /\ UNCHANGED <<cap, heapVars, treeVars, handleVars>>

\* const_iterator::operator++ at a non-end position.
IterIncrement ==
    /\ it \in alloc
    /\ it' = Successor(node, it)
    /\ last' = Op("increment", it, it')
    /\ UNCHANGED <<cap, heapVars, treeVars, handleVars>>

\* const_iterator::operator-- at a non-end position.
IterDecrement ==
    /\ it \in alloc
    /\ it' = Predecessor(node, it)
    /\ last' = Op("decrement", it, it')
    /\ UNCHANGED <<cap, heapVars, treeVars, handleVars>>

InitIter == InitWith(IterCap)

NextIter ==
    \/ \E v \in Values : Insert("a", v)
    \/ IterAtRoot("a")
    \/ \E n \in Ptr : IterAt(n)
    \/ IterIncrement
    \/ IterDecrement

SpecIter == InitIter /\ [][NextIter]_vars

\* ------------------------------------------------------------ tree objects
\* binary_tree(): root(nullptr), sz(0).
TreeDefaultCtor(d) ==
    /\ ~tlive[d]
    /\ tlive' = [tlive EXCEPT ![d] = TRUE]
    /\ root' = [root EXCEPT ![d] = NULL]
    /\ sz' = [sz EXCEPT ![d] = 0]
    /\ last' = Op("tree_ctor", NULL, NULL)
    /\ UNCHANGED <<cap, heapVars, handleVars, it>>

\* binary_tree(const binary_tree&) = default: every member is copied.
TreeCopyCtor(d, s) ==
    /\ ~tlive[d] /\ tlive[s]
    /\ tlive' = [tlive EXCEPT ![d] = TRUE]
    /\ root' = [root EXCEPT ![d] = root[s]]
    /\ sz' = [sz EXCEPT ![d] = sz[s]]
    /\ last' = Op("tree_copy_ctor", NULL, root[s])
    /\ UNCHANGED <<cap, heapVars, handleVars, it>>

\* binary_tree(binary_tree&&) = default: every member is moved; moving a
\* pointer or a size_type copies it and leaves the source as it was.
TreeMoveCtor(d, s) ==
    /\ ~tlive[d] /\ tlive[s]
    /\ tlive' = [tlive EXCEPT ![d] = TRUE]
    /\ root' = [root EXCEPT ![d] = root[s]]
    /\ sz' = [sz EXCEPT ![d] = sz[s]]
    /\ last' = Op("tree_move_ctor", NULL, root[s])
    /\ UNCHANGED <<cap, heapVars, handleVars, it>>

\* operator=(const binary_tree&) = default.
TreeCopyAssign(d, s) ==
    /\ tlive[d] /\ tlive[s]
    /\ root' = [root EXCEPT ![d] = root[s]]
    /\ sz' = [sz EXCEPT ![d] = sz[s]]
    /\ last' = Op("tree_copy_assign", root[d], root[s])
    /\ UNCHANGED <<cap, heapVars, tlive, handleVars, it>>

\* operator=(binary_tree&&) = default.
TreeMoveAssign(d, s) ==
    /\ tlive[d] /\ tlive[s]
    /\ root' = [root EXCEPT ![d] = root[s]]
    /\ sz' = [sz EXCEPT ![d] = sz[s]]
    /\ last' = Op("tree_move_assign", root[d], root[s])
    /\ UNCHANGED <<cap, heapVars, tlive, handleVars, it>>

\* ~binary_tree() = default: the object ends, no node is destroyed.
TreeDtor(d) ==
    /\ tlive[d]
    /\ tlive' = [tlive EXCEPT ![d] = FALSE]
    /\ root' = [root EXCEPT ![d] = NULL]
    /\ sz' = [sz EXCEPT ![d] = 0]
    /\ last' = Op("tree_dtor", root[d], NULL)
    /\ UNCHANGED <<cap, heapVars, handleVars, it>>

\* binary_tree::operator==(const binary_tree&) = default: the members are
\* compared one by one, root as a pointer; allocators always compare equal.
TreeEquals(t, u) == root[t] = root[u] /\ sz[t] = sz[u]

\* The comparison t == u of two tree objects.
TreeEq(t, u) ==
    /\ tlive[t] /\ tlive[u]
    /\ last' = OpH("tree_eq", t, u, root[t], IF TreeEquals(t, u) THEN 1 ELSE 0, FALSE)
    /\ UNCHANGED <<cap, heapVars, treeVars, handleVars, it>>

InitTree == InitWith(TreeCap)

NextTree ==
    \/ \E t \in Trees, v \in StoreValues : Insert(t, v)
    \/ \E d \in Trees : TreeDefaultCtor(d)
    \/ \E d, s \in Trees : TreeCopyCtor(d, s)
    \/ \E d, s \in Trees : TreeMoveCtor(d, s)
    \/ \E d, s \in Trees : TreeCopyAssign(d, s)
    \/ \E d, s \in Trees : TreeMoveAssign(d, s)
    \/ \E d \in Trees : TreeDtor(d)
    \/ \E t, u \in Trees : TreeEq(t, u)

SpecTree == InitTree /\ [][NextTree]_vars

\* ------------------------------------------------------------ dereferencing
\* What a read of n->value can give: the stored value, or anything when the
\* cell n is not allocated (a read of freed or reused memory).
ReadValue(al, nd, n) == IF n \in al THEN {nd[n].value} ELSE HandleValues

\* const_iterator::operator=(std::nullptr_t)
IterReset ==
    /\ it' = NULL
    /\ last' = Op("iter_reset", it, NULL)
    /\ UNCHANGED <<cap, heapVars, treeVars, handleVars>>

\* Access without the null test: a null position is read like any other.
AccessUnchecked(op, h, n) ==
    {OpH(op, h, "-", n, v, FALSE) : v \in ReadValue(alloc, node, n)}

\* The record of an access through pointer n named op by object h: it throws
\* when n is null and gives the value otherwise.
Access(op, h, n) ==
    IF n = NULL
    THEN {OpH(op, h, "-", NULL, NULL, TRUE)}
    ELSE {OpH(op, h, "-", n, v, FALSE) : v \in ReadValue(alloc, node, n)}

\* const_iterator::operator*
IterDeref ==
    /\ last' \in Access("iter_deref", "-", it)
    /\ UNCHANGED <<cap, heapVars, treeVars, handleVars, it>>

\* const_iterator::operator->
IterArrow ==
    /\ last' \in Access("iter_arrow", "-", it)
    /\ UNCHANGED <<cap, heapVars, treeVars, handleVars, it>>

\* ------------------------------------------------------------- node handles
\* node_type::empty
HandleEmpty(h) == hnode[h] = NULL

\* node_type::operator*
HandleDeref(h) ==
    /\ hlive[h]
    /\ last' \in Access("handle_deref", h, hnode[h])
    /\ UNCHANGED <<cap, heapVars, treeVars, handleVars, it>>

\* node_type::operator->
HandleArrow(h) ==
    /\ hlive[h]
    /\ last' \in Access("handle_arrow", h, hnode[h])
    /\ UNCHANGED <<cap, heapVars, treeVars, handleVars, it>>

\* node_type::value
HandleValue(h) ==
    /\ hlive[h]
    /\ last' \in Access("handle_value", h, hnode[h])
    /\ UNCHANGED <<cap, heapVars, treeVars, handleVars, it>>

\* node_type(): node(nullptr)
HandleDefaultCtor(h) ==
    /\ ~hlive[h]
    /\ hlive' = [hlive EXCEPT ![h] = TRUE]
    /\ hnode' = [hnode EXCEPT ![h] = NULL]
    /\ last' = OpH("handle_ctor", h, "-", NULL, NULL, FALSE)
    /\ UNCHANGED <<cap, heapVars, treeVars, it>>

\* The allocated cells and the heap after node_type::_destroy() of a handle
\* holding n.  Deallocating a cell that is not allocated is undefined, and no
\* handle operation is taken that would do it.
CanDestroy(n) == n \in alloc \cup {NULL}
AllocAfterDestroy(n) == alloc \ {n}
HeapAfterDestroy(n) == IF n = NULL THEN node ELSE FreeCell(node, n)

\* node_type(const node_type& other)
HandleCopyCtor(h, o) ==
    /\ ~hlive[h] /\ hlive[o]
    /\ hlive' = [hlive EXCEPT ![h] = TRUE]
    /\ IF hnode[o] = NULL
       THEN /\ hnode' = [hnode EXCEPT ![h] = NULL]
            /\ last' = OpH("handle_copy_ctor", h, o, NULL, NULL, FALSE)
            /\ UNCHANGED heapVars
       ELSE \E a \in FreeCells, v \in ReadValue(alloc, node, hnode[o]) :
            /\ alloc' = alloc \cup {a}
            /\ node' = [node EXCEPT ![a] = Node1(v)]
            /\ hnode' = [hnode EXCEPT ![h] = a]
            /\ last' = OpH("handle_copy_ctor", h, o, hnode[o], a, FALSE)
    /\ UNCHANGED <<cap, treeVars, it>>

\* node_type(node_type&& other)
HandleMoveCtor(h, o) ==
    /\ ~hlive[h] /\ hlive[o]
    /\ hlive' = [hlive EXCEPT ![h] = TRUE]
    /\ hnode' = [hnode EXCEPT ![h] = hnode[o], ![o] = NULL]
    /\ last' = OpH("handle_move_ctor", h, o, hnode[o], hnode[o], FALSE)
    /\ UNCHANGED <<cap, heapVars, treeVars, it>>

\* ~node_type(): _destroy()
HandleDtor(h) ==
    /\ hlive[h] /\ CanDestroy(hnode[h])
    /\ alloc' = AllocAfterDestroy(hnode[h])
    /\ node' = HeapAfterDestroy(hnode[h])
    /\ hlive' = [hlive EXCEPT ![h] = FALSE]
    /\ hnode' = [hnode EXCEPT ![h] = NULL]
    /\ last' = OpH("handle_dtor", h, "-", hnode[h], NULL, FALSE)
    /\ UNCHANGED <<cap, treeVars, it>>

\* node_type::operator=(const node_type& other)
HandleCopyAssign(h, o) ==
    /\ hlive[h] /\ hlive[o]
    /\ IF h = o
       THEN /\ last' = OpH("handle_copy_assign", h, o, hnode[o], hnode[h], FALSE)
            /\ UNCHANGED <<heapVars, hnode>>
       ELSE /\ CanDestroy(hnode[h])
            /\ IF hnode[o] = NULL
               THEN /\ alloc' = AllocAfterDestroy(hnode[h])
                    /\ node' = HeapAfterDestroy(hnode[h])
                    /\ hnode' = [hnode EXCEPT ![h] = NULL]
                    /\ last' = OpH("handle_copy_assign", h, o, NULL, NULL, FALSE)
               ELSE \E a \in (1..cap) \ AllocAfterDestroy(hnode[h]),
                       v \in ReadValue(AllocAfterDestroy(hnode[h]),
                                       HeapAfterDestroy(hnode[h]), hnode[o]) :
                    /\ alloc' = AllocAfterDestroy(hnode[h]) \cup {a}
                    /\ node' = [HeapAfterDestroy(hnode[h]) EXCEPT ![a] = Node1(v)]
                    /\ hnode' = [hnode EXCEPT ![h] = a]
                    /\ last' = OpH("handle_copy_assign", h, o, hnode[o], a, FALSE)
    /\ UNCHANGED <<cap, treeVars, hlive, it>>

\* HandleMoveAssign that leaves the source holding its node.
HandleMoveAssignKeepingSource(h, o) ==
    /\ hlive[h] /\ hlive[o] /\ CanDestroy(hnode[h])
    /\ alloc' = AllocAfterDestroy(hnode[h])
    /\ node' = HeapAfterDestroy(hnode[h])
    /\ hnode' = IF h = o THEN [hnode EXCEPT ![h] = NULL]
                         ELSE [hnode EXCEPT ![h] = hnode[o]]
    /\ last' = OpH("handle_move_assign", h, o, hnode[o], hnode'[h], FALSE)
    /\ UNCHANGED <<cap, treeVars, hlive, it>>

\* node_type::operator=(node_type&& other)
HandleMoveAssign(h, o) ==
    /\ hlive[h] /\ hlive[o] /\ CanDestroy(hnode[h])
    /\ alloc' = AllocAfterDestroy(hnode[h])
    /\ node' = HeapAfterDestroy(hnode[h])
    /\ hnode' = IF h = o THEN [hnode EXCEPT ![h] = NULL]
                         ELSE [hnode EXCEPT ![h] = hnode[o], ![o] = NULL]
    /\ last' = OpH("handle_move_assign", h, o, hnode[o], hnode'[h], FALSE)
    /\ UNCHANGED <<cap, treeVars, hlive, it>>

\* node_type::operator=(const_iterator pos), pos being the iterator object
HandleAssignIter(h) ==
    /\ hlive[h] /\ CanDestroy(hnode[h])
    /\ alloc' = AllocAfterDestroy(hnode[h])
    /\ node' = HeapAfterDestroy(hnode[h])
    /\ hnode' = [hnode EXCEPT ![h] = it]
    /\ last' = OpH("handle_assign_iter", h, "-", it, it, FALSE)
    /\ UNCHANGED <<cap, treeVars, hlive, it>>

\* node_type::swap
HandleSwap(h, o) ==
    /\ hlive[h] /\ hlive[o]
    /\ hnode' = [hnode EXCEPT ![h] = hnode[o], ![o] = hnode[h]]
    /\ last' = OpH("handle_swap", h, o, hnode[o], hnode[h], FALSE)
    /\ UNCHANGED <<cap, heapVars, treeVars, hlive, it>>

InitHandle == InitWith(HandleCap)

NextHandle ==
    \/ \E v \in HandleValues : Insert("a", v)
    \/ IterAtRoot("a")
    \/ IterReset
    \/ IterDeref
    \/ IterArrow
    \/ \E h \in Handles : HandleDeref(h)
    \/ \E h \in Handles : HandleArrow(h)
    \/ \E h \in Handles : HandleValue(h)
    \/ \E h \in Handles : HandleDefaultCtor(h)
    \/ \E h, o \in Handles : HandleCopyCtor(h, o)
    \/ \E h, o \in Handles : HandleMoveCtor(h, o)
    \/ \E h \in Handles : HandleDtor(h)
    \/ \E h, o \in Handles : HandleCopyAssign(h, o)
    \/ \E h, o \in Handles : HandleMoveAssign(h, o)
    \/ \E h \in Handles : HandleAssignIter(h)
    \/ \E h, o \in Handles : HandleSwap(h, o)

SpecHandle == InitHandle /\ [][NextHandle]_vars

\* ------------------------------------------------------------------ claims
PrimitiveOps == {"construct_node", "construct_node_linked", "destroy_node"}

\* C1 (as claimed): after a construct_node or destroy_node call, size()
\* equals the number of nodes reachable from root through left/right links.
C1_SizeEqualsReachable ==
    \A t \in Trees :
        (tlive[t] /\ last.op \in PrimitiveOps) => sz[t] = Cardinality(Reach(root[t]))

\* C1 (amended): construct_node (either overload) and destroy_node leave
\* size() of every tree unchanged; they never write the counter.
C1_PrimitivesKeepSize ==
    [][last'.op \in PrimitiveOps => sz' = sz]_vars

\* C1 witness: a primitive has just changed the set of nodes reachable from
\* the root of a tree, whose counter no longer matches it.
C1_Witness ==
    /\ last.op \in PrimitiveOps
    /\ root["a"] \in alloc
    /\ sz["a"] # Cardinality(Reach(root["a"]))

\* The step is destroy_node(n) on the sole root node n of tree t.
DestroysSoleRoot(t, n) ==
    /\ last'.op = "destroy_node" /\ last'.n = n
    /\ tlive[t] /\ n # NULL /\ root[t] = n
    /\ node[n].parent = NULL
    /\ Reach(n) = {n}

\* C3 (as claimed): destroy_node on the sole root node of a tree leaves the
\* tree with root == null.
C3_DestroyRootNullsRoot ==
    [][\A t \in Trees, n \in Addr : DestroysSoleRoot(t, n) => root'[t] = NULL]_vars

\* C3 (amended): destroy_node on the sole root node deallocates the node and
\* returns null; the tree's root field is left as it was, still holding the
\* address of the destroyed node.
C3_DestroyRootKeepsRoot ==
    [][\A t \in Trees, n \in Addr :
          DestroysSoleRoot(t, n) =>
              /\ root'[t] = n
              /\ n \notin alloc'
              /\ last'.ret = NULL]_vars

\* C3 witness: the sole root node has just been destroyed.
C3_Witness ==
    /\ last.op = "destroy_node" /\ last.n # NULL /\ last.ret = NULL
    /\ root["a"] = last.n
    /\ last.n \notin alloc

\* C4: destroy_node(n) on a node n that its parent p links as a child nulls
\* the one link of p that matched (left first, else right), leaves p's other
\* link and every other live node as they were, deallocates n and returns p;
\* destroy_node(null) changes nothing and returns null.
C4_DestroyChildFrame ==
    [][/\ \A n \in Addr :
            LET p == node[n].parent IN
            (/\ last'.op = "destroy_node" /\ last'.n = n
             /\ p # NULL
             /\ (node[p].left = n \/ node[p].right = n))
            => /\ last'.ret = p
               /\ n \notin alloc'
               /\ IF node[p].left = n
                  THEN node'[p] = [node[p] EXCEPT !.left = NULL]
                  ELSE node'[p] = [node[p] EXCEPT !.right = NULL]
               /\ \A m \in Addr \ {n, p} : node'[m] = node[m]
       /\ (last'.op = "destroy_node" /\ last'.n = NULL)
            => /\ last'.ret = NULL
               /\ UNCHANGED <<heapVars, treeVars>>]_vars

\* C4 witness: a child has just been destroyed and its parent, which was
\* returned, still links the sibling.
C4_Witness ==
    /\ last.op = "destroy_node" /\ last.n # NULL /\ last.ret \in alloc
    /\ last.n \notin alloc
    /\ \/ node[last.ret].left = NULL /\ node[last.ret].right \in alloc
       \/ node[last.ret].right = NULL /\ node[last.ret].left \in alloc

\* ----------------------------------------------------- claims on traversal
NonDecreasing(q) == \A i, j \in 1..Len(q) : i < j => q[i] <= q[j]

\* The subtree at n holds smaller values on its left and greater ones on its
\* right, and each child names its parent.
RECURSIVE SubtreeOK(_, _, _, _)
SubtreeOK(n, lo, hi, par) ==
    \/ n = NULL
    \/ /\ n \in alloc
       /\ node[n].parent = par
       /\ lo < node[n].value /\ node[n].value < hi
       /\ SubtreeOK(node[n].left, lo, node[n].value, n)
       /\ SubtreeOK(node[n].right, node[n].value, hi, n)

\* The BST and parent-link invariants of the tree t.
WellFormed(t) == SubtreeOK(root[t], 0, MaxVal + 1, NULL)

\* C2: in a tree built by insertions that descend by comparison and link with
\* the linking constructor, chaining successor() from the leftmost node yields
\* a non-decreasing sequence of values, and every operator++ step moves to a
\* value that is not smaller.
C2_InorderNonDecreasing ==
    /\ NonDecreasing(Inorder(root["a"]))
    /\ (last.op = "increment" /\ last.ret # NULL)
          => node[last.n].value <= node[last.ret].value

\* C2 witness: 5, 3, 1, 4 have been inserted in this order and the chain from
\* the leftmost node is 1, 3, 4, 5.
C2_Witness ==
    /\ root["a"] \in alloc
    /\ node[root["a"]].value = 5
    /\ node[root["a"]].left \in alloc
    /\ node[node[root["a"]].left].value = 3
    /\ node[node[root["a"]].left].left # NULL
    /\ node[node[root["a"]].left].right # NULL
    /\ Inorder(root["a"]) = <<1, 3, 4, 5>>

\* C5: every tree built by insertion satisfies the BST and parent-link
\* invariants, and in it, from every non-end position p: if successor() is not
\* the end then predecessor() of it is p, and if predecessor() is not the end
\* then successor() of it is p; the position an operator++ / operator-- step
\* has reached leads back to the position it left.
C5_RoundTrip ==
    /\ WellFormed("a")
    /\ \A p \in Reach(root["a"]) :
          /\ Successor(node, p) # NULL
                => Predecessor(node, Successor(node, p)) = p
          /\ Predecessor(node, p) # NULL
                => Successor(node, Predecessor(node, p)) = p
    /\ (last.op = "increment" /\ last.ret # NULL)
          => Predecessor(node, last.ret) = last.n
    /\ (last.op = "decrement" /\ last.ret # NULL)
          => Successor(node, last.ret) = last.n

\* C5 witness: operator++ has just climbed from a node without right child to
\* an ancestor that is not its parent, in a well-formed tree.
C5_Witness ==
    /\ WellFormed("a")
    /\ last.op = "increment" /\ last.ret # NULL
    /\ node[last.n].right = NULL
    /\ node[last.n].parent # last.ret
    /\ Predecessor(node, last.ret) = last.n

\* ------------------------------------------------------ claims on ownership
\* C6: no node is reachable from the roots of two different live tree
\* objects.
C6_NoSharedNode ==
    \A t, u \in Trees :
        (t # u /\ tlive[t] /\ tlive[u]) => Reach(root[t]) \cap Reach(root[u]) = {}

\* ---------------------------------------- claims on access and node handles
DerefOps == {"iter_deref", "iter_arrow", "handle_deref", "handle_arrow", "handle_value"}

\* C7: operator* and operator-> on an iterator whose position is null, and
\* value(), operator* and operator-> on an empty node handle, end in a runtime
\* error and return no value; iterator, handles, trees and nodes are unchanged.
C7_NullAccessThrows ==
    [][(/\ last'.op \in DerefOps
        /\ IF last'.h = "-" THEN it = NULL ELSE hnode[last'.h] = NULL)
       => /\ last'.err
          /\ last'.ret = NULL
          /\ UNCHANGED <<heapVars, treeVars, handleVars, it>>]_vars

\* C7 witness: value() on an empty handle has just thrown, beside a tree that
\* holds a node.
C7_Witness ==
    /\ last.op = "handle_value" /\ last.err
    /\ hlive[last.h] /\ HandleEmpty(last.h)
    /\ root["a"] \in alloc

\* C8: the node held by a non-empty node handle is reachable from the root of
\* no tree.
C8_HandleNodeDetached ==
    \A h \in Handles, t \in Trees :
        (hlive[h] /\ ~HandleEmpty(h) /\ tlive[t]) => hnode[h] \notin Reach(root[t])

MoveOps == {"handle_move_ctor", "handle_move_assign"}

\* C9: a move (construction or assignment) from a different handle leaves the
\* destination with the pointer the source held and the source empty; no node
\* is allocated, the node the destination of a move assignment held is
\* deallocated, and the moved node, when it is another node, is untouched.
C9_MoveTransfers ==
    [][\A h, o \in Handles :
          (h # o /\ last'.op \in MoveOps /\ last'.h = h /\ last'.o = o)
          => /\ hnode'[h] = hnode[o]
             /\ hnode'[o] = NULL
             /\ HandleEmpty(o)'
             /\ alloc' \subseteq alloc
             /\ hnode[h] # NULL => hnode[h] \notin alloc'
             /\ (hnode[o] \in alloc /\ hnode[o] # hnode[h])
                   => (hnode[o] \in alloc' /\ node'[hnode[o]] = node[hnode[o]])]_vars

\* C9 witness: a move assignment has just handed a live node from one handle
\* to another.
C9_Witness ==
    /\ last.op = "handle_move_assign" /\ last.h # last.o
    /\ last.n \in alloc
    /\ hnode[last.h] = last.n
    /\ HandleEmpty(last.o)

CopyOps == {"handle_copy_ctor", "handle_copy_assign"}

\* C10: a copy (construction or assignment) of a non-empty handle, whose node
\* is live, leaves the destination with an allocated node other than the
\* source's, holding the source's value and no links, and the source as it
\* was; a copy of an empty handle leaves the destination empty.
C10_CopyIsFresh ==
    [][\A h, o \in Handles :
          (h # o /\ last'.op \in CopyOps /\ last'.h = h /\ last'.o = o)
          => IF HandleEmpty(o)
             THEN hnode'[h] = NULL
             ELSE hnode[o] \in alloc
                  => /\ hnode'[h] \in alloc'
                     /\ hnode'[h] # hnode[o]
                     /\ node'[hnode'[h]] = Node1(node[hnode[o]].value)
                     /\ hnode'[o] = hnode[o]]_vars

\* ------------------------------------------------------ claims on equality
\* The trees at r1 and r2 have the same shape and equal values at every
\* position.
RECURSIVE SameStructure(_, _)
SameStructure(r1, r2) ==
    \/ r1 = NULL /\ r2 = NULL
    \/ /\ r1 \in alloc /\ r2 \in alloc
       /\ node[r1].value = node[r2].value
       /\ SameStructure(node[r1].left, node[r2].left)
       /\ SameStructure(node[r1].right, node[r2].right)

\* C11: two distinct tree objects compare equal exactly when they have the
\* same shape and equal values at every position.
C11_StructuralEquality ==
    (last.op = "tree_eq" /\ last.h # last.o)
        => (last.ret = 1 <=> SameStructure(root[last.h], root[last.o]))

\* ------------------------------------------------- claims on the node links
\* C12: every live node with a non-null parent reference is exactly one of
\* its parent's two children.
C12_ParentLinksChild ==
    \A n \in alloc :
        node[n].parent # NULL =>
            /\ node[n].parent \in alloc
            /\ (node[node[n].parent].left = n) # (node[node[n].parent].right = n)

\* C13: construct_node(value, parent, left, right, h) with a non-null parent
\* sets parent.left to the new node when value < parent.value, parent.right
\* when value > parent.value, and neither when the values are equal; the
\* parent's value, parent and height, and every field of every other node
\* that existed before the call (the parent's ancestors among them), are
\* unchanged.
C13_LinkTouchesOneChildLink ==
    [][(last'.op = "construct_node_linked" /\ last'.n # NULL /\ last'.ret \notin alloc) =>
        LET p == last'.n
            a == last'.ret
            v == node'[a].value
        IN  /\ v < node[p].value =>
                node'[p].left = a /\ node'[p].right = node[p].right
            /\ v > node[p].value =>
                node'[p].right = a /\ node'[p].left = node[p].left
            /\ v = node[p].value =>
                node'[p].left = node[p].left /\ node'[p].right = node[p].right
            /\ node'[p].value = node[p].value
            /\ node'[p].parent = node[p].parent
            /\ node'[p].height = node[p].height
            /\ \A n \in alloc \ {p} : node'[n] = node[n]]_vars

\* A node was linked below a parent that itself has a parent.
C13_Witness ==
    /\ last.op = "construct_node_linked" /\ last.n # NULL
    /\ node[last.n].parent \in alloc
    /\ node[last.n].left = last.ret

\* C15: the height of the node construct_node(value, parent, left, right, h)
\* produces is 0 without children, 1 + the height of the sole child with one
\* child, 1 + the larger child height with two, whatever h was.
C15_HeightFromChildren ==
    last.op = "construct_node_linked" =>
        LET n == node[last.ret]
        IN  CASE n.left = NULL /\ n.right = NULL -> n.height = 0
              [] n.left # NULL /\ n.right = NULL -> n.height = 1 + node[n.left].height
              [] n.left = NULL /\ n.right # NULL -> n.height = 1 + node[n.right].height
              [] OTHER ->
                    /\ n.height >= 1 + node[n.left].height
                    /\ n.height >= 1 + node[n.right].height
                    /\ n.height \in {1 + node[n.left].height, 1 + node[n.right].height}

\* A node was constructed over two children of different heights.
C15_Witness ==
    /\ last.op = "construct_node_linked"
    /\ node[last.ret].left \in alloc /\ node[last.ret].right \in alloc
    /\ node[node[last.ret].left].height # node[node[last.ret].right].height

\* ------------------------------------------------- claims on the traversal
\* The positions successor() passes through from the leftmost node of the
\* tree at r, cut off after one step more than the heap has cells.
Visited(r) == IF r = NULL THEN <<>> ELSE NodeChain(node, Leftmost(node, r), cap + 1)

\* C14: the tree built by insertions satisfies the BST and parent-link
\* invariants, and successor() chained from its leftmost node reaches the end
\* after exactly as many steps as the tree has nodes, having visited every
\* node reachable from the root exactly once in strictly ascending order of
\* value.
C14_TraversalVisitsAll ==
    LET q == Visited(root["a"])
    IN  /\ WellFormed("a")
        /\ Len(q) = Cardinality(Reach(root["a"]))
        /\ {q[i] : i \in 1..Len(q)} = Reach(root["a"])
        /\ \A i, j \in 1..Len(q) : i < j => node[q[i]].value < node[q[j]].value

\* C14 witness: a tree that fills the heap, whose root has two children, has
\* been traversed from the leftmost node to the end.
C14_Witness ==
    /\ Cardinality(Reach(root["a"])) = cap
    /\ node[root["a"]].left # NULL /\ node[root["a"]].right # NULL
    /\ Len(Visited(root["a"])) = cap
    /\ last.op = "increment" /\ last.ret = NULL

\* --------------------------------------------- claims on the heap as a whole
\* C16: no reference held by live state (a live tree's root, a live node's
\* parent, left or right, a live handle's node) designates a node that has
\* been destroyed and deallocated.
C16_NoDanglingReference ==
    /\ \A t \in Trees : tlive[t] => root[t] \in alloc \cup {NULL}
    /\ \A n \in alloc : {node[n].parent, node[n].left, node[n].right} \subseteq alloc \cup {NULL}
    /\ \A h \in Handles : hlive[h] => hnode[h] \in alloc \cup {NULL}

\* Every allocated node is reachable from the root of a tree.
AllReachable == alloc \subseteq UNION {Reach(root[t]) : t \in Trees}

\* C17: a construct_node call that links below a parent, and a destroy_node
\* call, made while every allocated node is reachable from the root, leave
\* every allocated node reachable from the root.
C17_NoNodeLeftUnreachable ==
    [][(last'.op \in {"construct_node_linked", "destroy_node"} /\ AllReachable)
            => AllReachable']_vars

=============================================================================
